---- MODULE Spec2Model ----
(***************************************************************************)
(* f2: discovery (package find) and rename / undo (package rename).        *)
(*                                                                         *)
(* A Go string is a sequence of characters, each character a one-element   *)
(* TLA+ string: "/w/a" is <<"/", "w", "/", "a">>.  The path functions of   *)
(* path/filepath and strings are operators on such sequences.              *)
(***************************************************************************)
EXTENDS Integers, Sequences, FiniteSets, TLC

VARIABLES
    fs,            \* the filesystem: a set of nodes [path, dir]
    foldsCase,     \* TRUE when the filesystem is case-insensitive
    clock,         \* time.Now().UnixNano(), as a counter
    backups,       \* the data directory f2/backups: file name -> content
    errs,          \* rename.go: var errs []int (package level)
    calls,         \* number of Rename / Undo calls made so far
    last,          \* the most recent call: its inputs, its effects, its result
    prev,          \* the call before it
    find           \* package find: the state of one Find call

vars == <<fs, foldsCase, clock, backups, errs, calls, last, prev, find>>

\* F applied to the value of e, with e evaluated once
Once(e, F(_)) == CHOOSE r \in {F(v) : v \in {e}} : TRUE

(***************************************************************************)
(* strings                                                                 *)
(***************************************************************************)
Separator == "/"

Upper == {"A", "B", "S"}

\* unicode.ToLower on the characters the model uses
ToLower(c) ==
    CASE c = "A" -> "a"
      [] c = "B" -> "b"
      [] c = "S" -> "s"
      [] OTHER -> c

\* strings.EqualFold
EqualFold(s, t) ==
    /\ Len(s) = Len(t)
    /\ \A i \in 1..Len(s) : ToLower(s[i]) = ToLower(t[i])

FoldString(s) == [i \in 1..Len(s) |-> ToLower(s[i])]

\* strings.Contains(s, c) for a one-character c
Contains(s, c) == \E i \in 1..Len(s) : s[i] = c

\* strings.ReplaceAll(s, old, new) for one-character old and new
ReplaceAll(s, old, new) == [i \in 1..Len(s) |-> IF s[i] = old THEN new ELSE s[i]]

\* strings.HasPrefix, strings.HasSuffix
HasPrefix(s, p) == Len(p) <= Len(s) /\ SubSeq(s, 1, Len(p)) = p

HasSuffix(s, p) == Len(p) <= Len(s) /\ SubSeq(s, Len(s) - Len(p) + 1, Len(s)) = p

LastIndex(s, c) ==
    IF Contains(s, c)
    THEN CHOOSE i \in 1..Len(s) : s[i] = c /\ \A j \in (i + 1)..Len(s) : s[j] # c
    ELSE 0

FirstIndex(s, c) ==
    IF Contains(s, c)
    THEN CHOOSE i \in 1..Len(s) : s[i] = c /\ \A j \in 1..(i - 1) : s[j] # c
    ELSE 0

\* the Separator-separated elements of s, the empty ones included
RECURSIVE Elements(_)
Elements(s) ==
    IF ~Contains(s, Separator)
    THEN <<s>>
    ELSE LET i == FirstIndex(s, Separator)
         IN  <<SubSeq(s, 1, i - 1)>> \o Elements(SubSeq(s, i + 1, Len(s)))

Dot == <<".">>
DotDot == <<".", ".">>

\* filepath.Clean, the element stack: "." and empty elements are dropped, ".."
\* removes the element before it, or stays (relative) or is dropped (rooted)
RECURSIVE CleanElements(_, _, _)
CleanElements(elems, out, rooted) ==
    IF elems = <<>>
    THEN out
    ELSE LET e == Head(elems)
             rest == Tail(elems)
         IN  IF e = <<>> \/ e = Dot
             THEN CleanElements(rest, out, rooted)
             ELSE IF e = DotDot
             THEN IF out # <<>> /\ out[Len(out)] # DotDot
                  THEN CleanElements(rest, SubSeq(out, 1, Len(out) - 1), rooted)
                  ELSE IF rooted
                  THEN CleanElements(rest, out, rooted)
                  ELSE CleanElements(rest, Append(out, e), rooted)
             ELSE CleanElements(rest, Append(out, e), rooted)

RECURSIVE JoinElements(_)
JoinElements(elems) ==
    IF elems = <<>> THEN <<>>
    ELSE IF Len(elems) = 1 THEN elems[1]
    ELSE elems[1] \o <<Separator>> \o JoinElements(Tail(elems))

\* filepath.Clean
Clean(s) ==
    LET rooted == Len(s) > 0 /\ s[1] = Separator
        body == JoinElements(CleanElements(Elements(s), <<>>, rooted))
    IN  IF rooted THEN <<Separator>> \o body
        ELSE IF body = <<>> THEN Dot
        ELSE body

\* filepath.Join of two elements: empty elements are ignored, the result is Cleaned
Join(a, b) ==
    IF a = <<>> /\ b = <<>> THEN <<>>
    ELSE IF a = <<>> THEN Clean(b)
    ELSE IF b = <<>> THEN Clean(a)
    ELSE Clean(a \o <<Separator>> \o b)

\* filepath.Dir: all but the last element, Cleaned
Dir(s) == Clean(SubSeq(s, 1, LastIndex(s, Separator)))

\* filepath.Base
Base(s) ==
    LET elems == CleanElements(Elements(s), <<>>, FALSE)
    IN  IF s = <<>> THEN Dot
        ELSE IF elems = <<>> THEN <<Separator>>
        ELSE elems[Len(elems)]

(***************************************************************************)
(* the filesystem (package os).  A node is [path, dir]: path is absolute   *)
(* and Clean, dir tells a directory from a file.  Relative names resolve   *)
(* against the working directory of the process.                           *)
(***************************************************************************)
GOOS == "linux"
Windows == "windows"

NoError == "nil"

\* the root and the working directories of the model
Root == <<"/">>
WorkA == <<"/", "w", "/", "d">>
WorkB == <<"/", "w", "_", "d">>
WorkingDirs == {WorkA, WorkB}

\* a directory without write permission
ReadOnlyDirs == {WorkA \o <<"/", "r">>}

Node(p, isDir) == [path |-> p, dir |-> isDir]

InitialTree ==
    { Node(Root, TRUE),
      Node(<<"/", "w">>, TRUE),
      Node(WorkA, TRUE),
      Node(WorkA \o <<"/", "a">>, FALSE),
      Node(WorkA \o <<"/", "s">>, TRUE),
      Node(WorkA \o <<"/", "s", "/", "a">>, FALSE),
      Node(WorkA \o <<"/", "r">>, TRUE),
      Node(WorkA \o <<"/", "r", "/", "x">>, FALSE),
      Node(WorkB, TRUE),
      Node(WorkB \o <<"/", "b">>, FALSE) }

IsRooted(p) == Len(p) > 0 /\ p[1] = Separator

\* the absolute path a name stands for in a process whose working directory is cwd
Abs(cwd, p) == IF IsRooted(p) THEN Clean(p) ELSE Join(cwd, p)

\* two spellings of one name
SamePath(folds, p, q) == IF folds THEN EqualFold(p, q) ELSE p = q

Lookup(f, folds, p) == {n \in f : SamePath(folds, n.path, p)}

Exists(f, folds, p) == Lookup(f, folds, p) # {}

IsDirAt(f, folds, p) == \E n \in Lookup(f, folds, p) : n.dir

Writable(folds, d) == \A r \in ReadOnlyDirs : ~SamePath(folds, r, d)

\* the path under which an entry named Base(p) is stored in the directory Dir(p)
StoredPath(f, folds, p) ==
    LET parent == CHOOSE n \in Lookup(f, folds, Dir(p)) : TRUE
    IN  IF parent.path = Root THEN Root \o Base(p)
        ELSE parent.path \o <<Separator>> \o Base(p)

\* p is strictly below the directory d
Below(folds, d, p) ==
    /\ Len(p) > Len(d) + 1
    /\ SamePath(folds, SubSeq(p, 1, Len(d)), d)
    /\ p[Len(d) + 1] = Separator

\* os.MkdirAll on an absolute path: [ok, err, fs]
RECURSIVE MkdirAll(_, _, _)
MkdirAll(f, folds, p) ==
    IF Exists(f, folds, p)
    THEN IF IsDirAt(f, folds, p)
         THEN [ok |-> TRUE, err |-> NoError, fs |-> f]
         ELSE [ok |-> FALSE, err |-> "ENOTDIR", fs |-> f]
    ELSE LET up == MkdirAll(f, folds, Dir(p))
         IN  IF ~up.ok THEN up
             ELSE IF ~Writable(folds, Dir(p))
             THEN [ok |-> FALSE, err |-> "EACCES", fs |-> up.fs]
             ELSE [ok |-> TRUE, err |-> NoError,
                   fs |-> up.fs \cup {Node(StoredPath(up.fs, folds, p), TRUE)}]

\* os.Rename on absolute paths: [ok, err, fs]
OsRename(f, folds, old, new) ==
    LET fail(e) == [ok |-> FALSE, err |-> e, fs |-> f]
    IN  IF ~Exists(f, folds, old) THEN fail("ENOENT")
        ELSE LET src == CHOOSE n \in Lookup(f, folds, old) : TRUE
                 tgts == Lookup(f, folds, new)
                 same == src \in tgts
             IN  IF \E t \in tgts : t.dir /\ ~same THEN fail("EEXIST")
                 ELSE IF ~IsDirAt(f, folds, Dir(new)) THEN fail("ENOENT")
                 ELSE IF ~Writable(folds, Dir(old)) \/ ~Writable(folds, Dir(new))
                 THEN fail("EACCES")
                 ELSE IF same
                 THEN [ok |-> TRUE, err |-> NoError, fs |-> f]
                 ELSE IF src.dir /\ tgts # {} THEN fail("ENOTDIR")
                 ELSE IF src.dir /\ Below(folds, src.path, new) THEN fail("EINVAL")
                 ELSE LET to == StoredPath(f, folds, new)
                          moved == {n \in f : n = src \/ Below(folds, src.path, n.path)}
                          move(n) ==
                              Node(to \o SubSeq(n.path, Len(src.path) + 1, Len(n.path)),
                                   n.dir)
                      IN  [ok |-> TRUE, err |-> NoError,
                           fs |-> ((f \ moved) \ tgts) \cup {move(n) : n \in moved}]

(***************************************************************************)
(* package rename                                                          *)
(***************************************************************************)
\* file.Change; Error is NoError or the name of an error
Change(baseDir, source, target, isDir) ==
    [BaseDir |-> baseDir, Source |-> source, Target |-> target, IsDir |-> isDir,
     Error |-> NoError]

Digits == <<"0", "1", "2", "3", "4", "5", "6", "7", "8", "9">>

\* fmt.Sprintf("%d", n)
RECURSIVE Itoa(_)
Itoa(n) == IF n < 10 THEN <<Digits[n + 1]>> ELSE Itoa(n \div 10) \o <<Digits[(n % 10) + 1]>>

\* one filesystem call of a commit, as recorded in last.ops
Op(i, name, from, to, ok) == [i |-> i, op |-> name, from |-> from, to |-> to, ok |-> ok]

\* rename.go 43-44: the two joined paths of a change
SourcePath(change) == Join(change.BaseDir, change.Source)

\* a target path that leaves out the directory of the change
TargetOnly(change) == change.Target

TargetPath(change) == Join(change.BaseDir, change.Target)

\* rename.go 58-65: the path of the first rename of a case-only change
IntermediatePath(change, now) ==
    Join(change.BaseDir, <<"_", "_">> \o Itoa(now) \o <<"_", "_">> \o change.Target)

\* rename.go 69-71: the change asks for its target directories to be made
NeedsMkdir(change) ==
    \/ Contains(change.Target, "/")
    \/ (Contains(change.Target, "\\") /\ GOOS = Windows)

\* rename.go 47: the change is skipped
Unchanged(change) == SourcePath(change) = TargetPath(change)

\* rename.go 79-80, 96-97: the failure of item i is recorded
Failed(st, i, err, f, ops) ==
    [st EXCEPT !.errs = Append(@, i - 1),
               !.changes[i].Error = err,
               !.fs = f,
               !.ops = @ \o ops]

\* rename.go 40-101: one iteration of the loop of rename, for item i.
\* st is [fs, clock, errs, changes, ops]; cwd the working directory of the process.
\* Item i of the model is index i - 1 of the Go slice: errs and ops hold Go indices
RenameItem(st, folds, cwd, i) ==
    LET change == st.changes[i]
        sourcePath == SourcePath(change)
        caseInsensitiveFS == EqualFold(sourcePath, TargetPath(change))
        targetPath == IF caseInsensitiveFS
                      THEN IntermediatePath(change, st.clock)
                      ELSE TargetPath(change)
        timed == [st EXCEPT !.clock = IF caseInsensitiveFS THEN @ + 1 ELSE @]
        dir == Abs(cwd, Join(change.BaseDir, Dir(change.Target)))
        mkOps(made) == IF NeedsMkdir(change)
                       THEN <<Op(i - 1, "MkdirAll", dir, dir, made.ok)>>
                       ELSE <<>>
        op2(r) == Op(i - 1, "Rename", Abs(cwd, sourcePath), Abs(cwd, targetPath), r.ok)
        orginalTarget == TargetPath(change)
        op3(r) == Op(i - 1, "Rename", Abs(cwd, targetPath), Abs(cwd, orginalTarget), r.ok)
        \* 86-100: step 2, and step 3 when step 2 succeeded on a case-only change
        Renamed(made) ==
            Once(OsRename(made.fs, folds, Abs(cwd, sourcePath), Abs(cwd, targetPath)),
                 LAMBDA step2 :
                    IF ~step2.ok
                    THEN Failed(timed, i, step2.err, step2.fs,
                                mkOps(made) \o <<op2(step2)>>)
                    ELSE IF ~caseInsensitiveFS
                    THEN [timed EXCEPT !.fs = step2.fs,
                                       !.ops = @ \o mkOps(made) \o <<op2(step2)>>]
                    ELSE Once(OsRename(step2.fs, folds, Abs(cwd, targetPath),
                                       Abs(cwd, orginalTarget)),
                              LAMBDA step3 :
                                 IF ~step3.ok
                                 THEN Failed(timed, i, step3.err, step3.fs,
                                             mkOps(made) \o <<op2(step2), op3(step3)>>)
                                 ELSE [timed EXCEPT
                                          !.fs = step3.fs,
                                          !.ops = @ \o mkOps(made)
                                                    \o <<op2(step2), op3(step3)>>]))
    IN  IF Unchanged(change) THEN st
        ELSE Once(IF NeedsMkdir(change)
                  THEN MkdirAll(st.fs, folds, dir)
                  ELSE [ok |-> TRUE, err |-> NoError, fs |-> st.fs],
                  LAMBDA made :
                     IF ~made.ok
                     THEN Failed(timed, i, made.err, made.fs, mkOps(made))
                     ELSE Renamed(made))

\* rename.go 37-104: rename, items i..len(changes)
RECURSIVE RenameFrom(_, _, _, _)
RenameFrom(st, folds, cwd, i) ==
    IF i > Len(st.changes) THEN st
    ELSE Once(RenameItem(st, folds, cwd, i),
              LAMBDA next : RenameFrom(next, folds, cwd, i + 1))

\* rename.go 37-104: rename appends to the package-level errs and returns it
rename(f, folds, now, cwd, errs0, changes) ==
    RenameFrom([fs |-> f, clock |-> now, errs |-> errs0, changes |-> changes, ops |-> <<>>],
               folds, cwd, 1)

\* config.Config, the fields package rename reads.  Interactive, JSON and Verbose
\* only choose what is printed; of the three cases of Rename 232-245 the model keeps
\* the two that differ in effect, Exec and not Exec
Conf(workingDir, exec, includeDir, revert) ==
    [WorkingDir |-> workingDir, Exec |-> exec, IncludeDir |-> includeDir,
     Revert |-> revert]

\* rename.go 109-118 and 293-298: the name of the backup file of a working directory
BackupFileName(cwd) ==
    LET workingDir == ReplaceAll(cwd, Separator, "_")
        dir == IF GOOS = Windows THEN ReplaceAll(workingDir, ":", "_") ELSE workingDir
    IN  dir \o <<".", "j", "s", "o", "n">>

\* rename.go 120-122 and 300-302: its place in the data directory
BackupFilePath(cwd) ==
    Join(Join(<<"f", "2">>, <<"b", "a", "c", "k", "u", "p", "s">>), BackupFileName(cwd))

\* encoding/json on a file.Change: the keys of the backup schema
MarshalChange(c) ==
    [base_dir |-> c.BaseDir, source |-> c.Source, target |-> c.Target, is_dir |-> c.IsDir]

UnmarshalChange(j) ==
    [BaseDir |-> j.base_dir, Source |-> j.source, Target |-> j.target, IsDir |-> j.is_dir,
     Error |-> NoError]

\* one key of a JSON object, left out when the value is empty and the tag says omitempty
JsonField(key, value, omitempty) ==
    IF omitempty /\ value = <<>> THEN <<>> ELSE key :> value

\* json.go 15-47: GetOutput, the JSON object as a function from its keys.
\* conf.Date() is one fixed instant, conflicts are empty
GetOutput(changes, errors, conf) ==
    LET out == [WorkingDir |-> conf.WorkingDir,
                Date |-> <<"D">>,
                DryRun |-> ~conf.Exec,
                Changes |-> changes,
                Conflicts |-> <<>>,
                Errors |-> errors]
    IN  JsonField("conflicts", out.Conflicts, TRUE)
        @@ JsonField("working_dir", out.WorkingDir, FALSE)
        @@ JsonField("date", out.Date, FALSE)
        @@ JsonField("changes", [i \in 1..Len(out.Changes) |-> MarshalChange(out.Changes[i])],
                     TRUE)
        @@ JsonField("errors", out.Errors, TRUE)
        @@ JsonField("dry_run", out.DryRun, FALSE)

\* rename.go 312-319: json.Unmarshal into an Output, the changes of it
UnmarshalChanges(json) ==
    IF "changes" \in DOMAIN json
    THEN [i \in 1..Len(json.changes) |-> UnmarshalChange(json.changes[i])]
    ELSE <<>>

\* a backup that keeps the changes that errored out
KeepErrored(successfulChanges, i) == successfulChanges

\* rename.go 140-151: the changes without those that errored out
RECURSIVE RemoveErrored(_, _)
RemoveErrored(successfulChanges, i) ==
    IF i < 1 THEN successfulChanges
    ELSE IF successfulChanges[i].Error # NoError
    THEN RemoveErrored(SubSeq(successfulChanges, 1, i - 1)
                       \o SubSeq(successfulChanges, i + 1, Len(successfulChanges)), i - 1)
    ELSE RemoveErrored(successfulChanges, i - 1)

\* rename.go 108-166: backupChanges, the data directory after it.  The changes are
\* the only argument GetOutput is given
backupChanges(store, changes, conf) ==
    LET successfulChanges == RemoveErrored(changes, Len(changes))
        b == GetOutput(successfulChanges, <<>>, conf)
    IN  (BackupFilePath(conf.WorkingDir) :> b) @@ store

\* rename.go 212-216: the less function commit hands to sort.SliceStable
CommitLess(data, i, j) == data[i].Error = NoError

Swap(data, i, j) == [data EXCEPT ![i] = data[j], ![j] = data[i]]

\* package sort, insertionSort: for j := i; j > a && less(j, j-1); j-- { swap(j, j-1) }
RECURSIVE SortSink(_, _)
SortSink(data, j) ==
    IF j > 1 /\ CommitLess(data, j, j - 1)
    THEN SortSink(Swap(data, j, j - 1), j - 1)
    ELSE data

RECURSIVE SortFrom(_, _)
SortFrom(data, i) ==
    IF i > Len(data) THEN data ELSE SortFrom(SortSink(data, i), i + 1)

\* sort.SliceStable on a slice shorter than its block size: one insertion sort
SliceStable(data) == SortFrom(data, 2)

\* a commit that writes the backup whatever conf.Revert says
AlwaysBacksUp(conf) == TRUE

\* rename.go 204: the backup is written unless the commit is that of an undo
BacksUp(conf) == ~conf.Revert

\* rename.go 171-220: commit.  [fs, clock, errs, changes, ops] of rename, and
\* committed (the changes in commit order), backups, ret (the indices returned)
commit(f, folds, now, store, errs0, fileChanges, conf) ==
    Once(rename(f, folds, now, conf.WorkingDir, errs0, fileChanges),
         LAMBDA st :
            [fs |-> st.fs,
             clock |-> st.clock,
             errs |-> st.errs,
             ops |-> st.ops,
             committed |-> st.changes,
             backups |-> IF BacksUp(conf) THEN backupChanges(store, st.changes, conf)
                         ELSE store,
             changes |-> IF Len(st.errs) > 0 THEN SliceStable(st.changes)
                         ELSE st.changes,
             ret |-> st.errs])

IsFile(c) == ~c.IsDir

IsDirectory(c) == c.IsDir

\* sortfiles.FilesBeforeDirs: a stable sort, files first, in both variants
FilesBeforeDirs(changes, revert) ==
    SelectSeq(changes, IsFile) \o SelectSeq(changes, IsDirectory)

\* rename.go 224-254: Rename.  ran tells whether commit was called
Rename(f, folds, now, store, errs0, conf, changes) ==
    LET fileChanges == IF conf.IncludeDir
                       THEN FilesBeforeDirs(changes, conf.Revert)
                       ELSE changes
    IN  IF ~conf.Exec
        THEN [fs |-> f, clock |-> now, errs |-> errs0, ops |-> <<>>,
              committed |-> <<>>, backups |-> store, changes |-> fileChanges,
              ret |-> <<>>, ran |-> FALSE, result |-> NoError]
        ELSE Once(commit(f, folds, now, store, errs0, fileChanges, conf),
                  LAMBDA renameErrs :
                     [ran |-> TRUE,
                      result |-> IF renameErrs.ret # <<>> THEN "errRenameFailed"
                                 ELSE NoError] @@ renameErrs)

\* rename.go 321-331: every change with its Source and Target swapped
Inverted(changes) ==
    [i \in 1..Len(changes) |->
        [changes[i] EXCEPT !.Source = changes[i].Target, !.Target = changes[i].Source]]

\* the data directory without one file
RemoveFile(store, name) == [n \in DOMAIN store \ {name} |-> store[n]]

\* rename.go 292-352: Undo.  loaded is the snapshot read, or <<>>
Undo(f, folds, now, store, errs0, conf) ==
    LET backupFilePath == BackupFilePath(conf.WorkingDir)
        o == store[backupFilePath]
        changes == FilesBeforeDirs(Inverted(UnmarshalChanges(o)), conf.Revert)
    IN  IF backupFilePath \notin DOMAIN store
        THEN [fs |-> f, clock |-> now, errs |-> errs0, ops |-> <<>>,
              committed |-> <<>>, backups |-> store, changes |-> <<>>,
              ret |-> <<>>, ran |-> FALSE, result |-> "errNothingToUndo",
              loaded |-> <<>>]
        ELSE Once(Rename(f, folds, now, store, errs0, conf, changes),
                  LAMBDA done :
                     IF done.result # NoError
                     THEN [done EXCEPT !.result = "errUndoFailed"] @@ [loaded |-> o]
                     ELSE IF conf.Exec
                     THEN [done EXCEPT !.backups = RemoveFile(@, backupFilePath)]
                          @@ [loaded |-> o]
                     ELSE done @@ [loaded |-> o])

(***************************************************************************)
(* package find.  A directory entry is [name, dir]; a path collection      *)
(* (internalpath.Collection) is a function from directory names, as the    *)
(* caller spelled them, to sequences of entries.                           *)
(***************************************************************************)
\* find.go 21: the character that starts a hidden name
dotCharacter == "."

\* the characters of the model in byte order
Alphabet ==
    <<".", "0", "1", "2", "3", "4", "5", "6", "7", "8", "9", "A", "B", "S", "_",
      "a", "b", "c", "d", "e", "f", "g", "h", "i", "j", "k", "m", "n", "r", "s", "t",
      "w", "x", "y", "z">>

Rank(c) == CHOOSE i \in 1..Len(Alphabet) : Alphabet[i] = c

\* s < t, as Go compares strings
RECURSIVE StringLess(_, _)
StringLess(s, t) ==
    IF t = <<>> THEN FALSE
    ELSE IF s = <<>> THEN TRUE
    ELSE IF s[1] # t[1] THEN Rank(s[1]) < Rank(t[1])
    ELSE StringLess(Tail(s), Tail(t))

Entry(name, isDir) == [name |-> name, dir |-> isDir]

RECURSIVE SortedByName(_)
SortedByName(entries) ==
    IF entries = {} THEN <<>>
    ELSE LET first == CHOOSE e \in entries :
                          \A o \in entries \ {e} : StringLess(e.name, o.name)
         IN  <<first>> \o SortedByName(entries \ {first})

\* os.ReadDir: the entries of a directory, sorted by file name
ReadDir(f, folds, cwd, p) ==
    LET d == CHOOSE n \in Lookup(f, folds, Abs(cwd, p)) : TRUE
    IN  SortedByName({Entry(Base(n.path), n.dir) :
                          n \in {m \in f : m.path # d.path /\ Dir(m.path) = d.path}})

\* isHidden: a name that starts with a dot
isHidden(filename, baseDir) == filename # <<>> /\ filename[1] = dotCharacter

\* find.go 138-154: removeHidden
removeHidden(de, baseDir) == SelectSeq(de, LAMBDA e : ~isHidden(e.name, baseDir))

\* filepath.Ext: from the last dot of the last element on
Ext(name) ==
    IF LastIndex(name, ".") > LastIndex(name, Separator)
    THEN SubSeq(name, LastIndex(name, "."), Len(name))
    ELSE <<>>

\* internalpath.FilenameWithoutExtension
FilenameWithoutExtension(name) == SubSeq(name, 1, Len(name) - Len(Ext(name)))

\* A regular expression is the sequence of its characters; the model reads
\* alternation, the anchors and literals, "\\." being the escaped dot.
EscapedDot == "\\."

Literal(re) == [i \in 1..Len(re) |-> IF re[i] = EscapedDot THEN "." ELSE re[i]]

\* one alternative of a regular expression matches somewhere in name
MatchAlternative(alt, name) ==
    LET fromStart == alt # <<>> /\ alt[1] = "^"
        rest == IF fromStart THEN Tail(alt) ELSE alt
        toEnd == rest # <<>> /\ rest[Len(rest)] = "$"
        lit == Literal(IF toEnd THEN SubSeq(rest, 1, Len(rest) - 1) ELSE rest)
    IN  \E i \in 1..(Len(name) + 1) :
           /\ i + Len(lit) - 1 <= Len(name)
           /\ SubSeq(name, i, i + Len(lit) - 1) = lit
           /\ fromStart => i = 1
           /\ toEnd => i + Len(lit) - 1 = Len(name)

RECURSIVE Alternatives(_)
Alternatives(re) ==
    IF ~Contains(re, "|") THEN <<re>>
    ELSE LET i == FirstIndex(re, "|")
         IN  <<SubSeq(re, 1, i - 1)>> \o Alternatives(SubSeq(re, i + 1, Len(re)))

\* (*regexp.Regexp).MatchString
MatchString(re, name) ==
    \E k \in 1..Len(Alternatives(re)) : MatchAlternative(Alternatives(re)[k], name)

\* strings.Join(elems, sep) for a one-character sep
RECURSIVE StringsJoin(_, _)
StringsJoin(elems, sep) ==
    IF elems = <<>> THEN <<>>
    ELSE IF Len(elems) = 1 THEN elems[1]
    ELSE elems[1] \o <<sep>> \o StringsJoin(Tail(elems), sep)

\* find.go 57: the exclusion pattern
ExcludeFilter(excludeFilterInput) == StringsJoin(excludeFilterInput, "|")

\* find.go 114-116: the name the patterns are tested on
TestedName(entry, ignoreExt) ==
    IF ignoreExt /\ ~entry.dir THEN FilenameWithoutExtension(entry.name) ELSE entry.name

\* find.go 86-111: a hidden entry is skipped unless it is one of the arguments
SkippedAsHidden(folds, cwd, path, entry, pathsToSearch) ==
    /\ isHidden(entry.name, path)
    /\ \A k \in 1..Len(pathsToSearch) :
          ~EqualFold(Abs(cwd, Join(path, entry.name)), Abs(cwd, pathsToSearch[k]))

\* the inclusion pattern alone
PassesInclusion(filename, searchRegex, excludeFilter) == MatchString(searchRegex, filename)

\* find.go 118-123: the two patterns, exclusion first
PassesPatterns(filename, searchRegex, excludeFilter) ==
    IF excludeFilter # <<>> /\ MatchString(excludeFilter, filename) THEN FALSE
    ELSE MatchString(searchRegex, filename)

\* find.go 67-125: the entry is appended to filteredDirEntry.  flt is the record of
\* the arguments of filterMatches
Kept(folds, cwd, path, entry, flt) ==
    /\ ~(entry.dir /\ ~flt.includeDir)
    /\ ~(flt.onlyDir /\ ~entry.dir)
    /\ ~(~flt.includeHidden
         /\ SkippedAsHidden(folds, cwd, path, entry, flt.pathsToSearch))
    /\ PassesPatterns(TestedName(entry, flt.ignoreExt), flt.searchRegex,
                      ExcludeFilter(flt.excludeFilterInput))

\* find.go 64-133: filterMatches on one directory, entry k on.  The entry list is
\* filtered in place: st is [stored, filtered], stored what pathsToFilter[path]
\* holds (assigned at 127, which the continue statements skip), filtered the
\* slice filteredDirEntry
RECURSIVE FilterEntries(_, _, _, _, _, _, _)
FilterEntries(st, dirEntry, k, folds, cwd, path, flt) ==
    IF k > Len(dirEntry) THEN st
    ELSE LET entry == dirEntry[k]
             reachesEnd ==
                 /\ ~(entry.dir /\ ~flt.includeDir)
                 /\ ~(flt.onlyDir /\ ~entry.dir)
                 /\ ~(~flt.includeHidden
                      /\ SkippedAsHidden(folds, cwd, path, entry, flt.pathsToSearch))
                 /\ ~(ExcludeFilter(flt.excludeFilterInput) # <<>>
                      /\ MatchString(ExcludeFilter(flt.excludeFilterInput),
                                     TestedName(entry, flt.ignoreExt)))
             filtered == IF Kept(folds, cwd, path, entry, flt)
                         THEN Append(st.filtered, entry)
                         ELSE st.filtered
         IN  Once([stored |-> IF reachesEnd THEN filtered ELSE st.stored,
                   filtered |-> filtered],
                  LAMBDA next : FilterEntries(next, dirEntry, k + 1, folds, cwd, path, flt))

\* a filterMatches that keeps the directories it has emptied
filterMatchesKeepsEmpty(pathsToFilter, folds, cwd, flt) ==
    [path \in DOMAIN pathsToFilter |->
        FilterEntries([stored |-> pathsToFilter[path], filtered |-> <<>>],
                      pathsToFilter[path], 1, folds, cwd, path, flt).stored]

\* find.go 51-136: filterMatches, the collection after it
filterMatches(pathsToFilter, folds, cwd, flt) ==
    LET done(path) ==
            FilterEntries([stored |-> pathsToFilter[path], filtered |-> <<>>],
                          pathsToFilter[path], 1, folds, cwd, path, flt)
        left == {path \in DOMAIN pathsToFilter : Len(done(path).filtered) # 0}
    IN  [path \in left |-> done(path).stored]

\* find.go 256-280: the entry of a file argument is added to its directory once
AddFileEntry(paths, f, folds, cwd, path) ==
    LET dir == Dir(path)
        name == Base(path)
        dirEntry == ReadDir(f, folds, cwd, dir)
        found == {k \in 1..Len(dirEntry) : dirEntry[k].name = name}
        have == IF dir \in DOMAIN paths THEN paths[dir] ELSE <<>>
    IN  IF found = {} \/ \E k \in 1..Len(have) : have[k].name = name
        THEN paths
        ELSE (dir :> Append(have, dirEntry[CHOOSE k \in found : TRUE])) @@ paths

\* find.go 232-281: the loop of searchPaths over its arguments, argument k on.
\* st is [paths, err]
RECURSIVE SearchFrom(_, _, _, _, _, _)
SearchFrom(st, pathsToSearch, k, f, folds, cwd) ==
    IF k > Len(pathsToSearch) \/ st.err # NoError THEN st
    ELSE LET path == Clean(pathsToSearch[k])
         IN  Once(IF path \in DOMAIN st.paths THEN st
                  ELSE IF ~Exists(f, folds, Abs(cwd, path))
                  THEN [st EXCEPT !.err = "ENOENT"]
                  ELSE IF IsDirAt(f, folds, Abs(cwd, path))
                  THEN [st EXCEPT !.paths = (path :> ReadDir(f, folds, cwd, path)) @@ @]
                  ELSE [st EXCEPT !.paths = AddFileEntry(@, f, folds, cwd, path)],
                  LAMBDA next : SearchFrom(next, pathsToSearch, k + 1, f, folds, cwd))

\* find.go 221-281: searchPaths before the walk: [paths, err]
searchPaths(pathsToSearch, f, folds, cwd) ==
    SearchFrom([paths |-> <<>>, err |-> NoError],
               IF Len(pathsToSearch) = 0 THEN <<Dot>> ELSE pathsToSearch,
               1, f, folds, cwd)

\* find.go 185-195: the directories below dir, with their entries
Expanded(f, folds, cwd, dir, dirContents) ==
    LET subs == {k \in 1..Len(dirContents) : dirContents[k].dir}
    IN  [fp \in {Join(dir, dirContents[k].name) : k \in subs} |->
            ReadDir(f, folds, cwd, fp)]

\* a pass that skips no directory
EveryKey(paths, recursedPaths) == DOMAIN paths

\* find.go 172-175: the directories a pass does not skip
Unvisited(paths, recursedPaths) == DOMAIN paths \ recursedPaths

\* find.go 172-198: one pass over paths, the currentLevel it fills
CurrentLevel(paths, recursedPaths, f, folds, cwd, includeHidden) ==
    LET todo == Unvisited(paths, recursedPaths)
        contents(dir) == IF ~includeHidden THEN removeHidden(paths[dir], dir)
                         ELSE paths[dir]
        level(dir) == Expanded(f, folds, cwd, dir, contents(dir))
        found == UNION {DOMAIN level(dir) : dir \in todo}
    IN  [fp \in found |-> ReadDir(f, folds, cwd, fp)]

\* a walk that stops one level below maxDepth
WalkStopsLate(maxDepth, currentDepth) == maxDepth > 0 /\ currentDepth = maxDepth + 1

\* find.go 211: the walk stops at maxDepth
WalkStops(maxDepth, currentDepth) == maxDepth > 0 /\ currentDepth = maxDepth

(***************************************************************************)
(* the calls of the model: change lists as the naming engine hands them    *)
(* over, names relative to the working directory                           *)
(***************************************************************************)
Here == Dot
File(source, target) == Change(Here, source, target, FALSE)

\* a plain rename, a case-only rename, and a case-only rename below a directory
PlainChanges == <<File(<<"a">>, <<"b">>)>>
CaseChanges == <<File(<<"a">>, <<"A">>)>>
CaseInDirChanges == <<File(<<"s", "/", "a">>, <<"s", "/", "A">>)>>

\* a rename inside s, then an unchanged item whose Target has a separator
NoOpChanges ==
    <<Change(<<"s">>, <<"a">>, <<"b">>, FALSE),
      File(<<"t", "/", "a">>, <<"t", "/", "a">>)>>

\* a target directory that does not exist yet
MkdirChanges == <<File(<<"a">>, <<"t", "/", "a">>)>>

\* three items, the second one into a directory without write permission
PartialChanges ==
    <<File(<<"a">>, <<"b">>),
      File(<<"s", "/", "a">>, <<"r", "/", "a">>),
      Change(<<"s">>, <<"a">>, <<"b">>, FALSE)>>

\* the directory s to t and the file s/a to t/a, in both orders
FileThenDir ==
    <<File(<<"s", "/", "a">>, <<"t", "/", "a">>),
      Change(Here, <<"s">>, <<"t">>, TRUE)>>
DirThenFile == <<FileThenDir[2], FileThenDir[1]>>

\* the directory s to t and the file a inside s to b, in both orders
InnerThenDir ==
    <<Change(<<"s">>, <<"a">>, <<"b">>, FALSE),
      Change(Here, <<"s">>, <<"t">>, TRUE)>>
DirThenInner == <<InnerThenDir[2], InnerThenDir[1]>>

Invocation(cwd, changes, includeDir, exec) ==
    [conf |-> Conf(cwd, exec, includeDir, FALSE), changes |-> changes]

Invocations ==
    { Invocation(WorkA, c, FALSE, TRUE) :
        c \in {PlainChanges, CaseChanges, CaseInDirChanges, NoOpChanges, MkdirChanges,
               PartialChanges, FileThenDir, DirThenFile} }
    \cup { Invocation(WorkA, InnerThenDir, FALSE, TRUE),
           Invocation(WorkA, DirThenInner, FALSE, TRUE),
           Invocation(WorkA, DirThenInner, TRUE, TRUE),
           Invocation(WorkA, PlainChanges, FALSE, FALSE) }

\* the calls of Undo: the working directory, and conf.Exec
Undos == {<<WorkA, TRUE>>, <<WorkA, FALSE>>, <<WorkB, TRUE>>}

\* how many calls of Rename and Undo a behaviour makes
MaxCalls == 3

NoCall ==
    [op |-> "none", conf |-> Conf(<<>>, FALSE, FALSE, FALSE), input |-> <<>>,
     fsPre |-> {}, backupsPre |-> <<>>, errsPre |-> <<>>,
     fs |-> {}, clock |-> 0, errs |-> <<>>, ops |-> <<>>, committed |-> <<>>,
     backups |-> <<>>, changes |-> <<>>, ret |-> <<>>, ran |-> FALSE,
     result |-> NoError, loaded |-> <<>>]

NoFind ==
    [pc |-> "idle", args |-> <<>>, flt |-> <<>>, paths |-> <<>>, recursedPaths |-> {},
     currentDepth |-> 0, walked |-> <<>>, visits |-> <<>>, err |-> NoError]

Init ==
    /\ fs = InitialTree
    /\ foldsCase \in BOOLEAN
    /\ clock = 1
    /\ backups = <<>>
    /\ errs = <<>>
    /\ calls = 0
    /\ last = NoCall
    /\ prev = NoCall
    /\ find = NoFind

\* what a call leaves behind: the state of the process and of the disk, and the record
Returned(op, conf, input, r) ==
    /\ fs' = r.fs
    /\ clock' = r.clock
    /\ backups' = r.backups
    /\ errs' = r.errs
    /\ calls' = calls + 1
    /\ prev' = last
    /\ last' = [op |-> op, conf |-> conf, input |-> input,
                fsPre |-> fs, backupsPre |-> backups, errsPre |-> errs] @@ r
    /\ UNCHANGED <<foldsCase, find>>

\* a call of rename.Rename
CallRename(inv) ==
    /\ calls < MaxCalls
    /\ \E r \in {Rename(fs, foldsCase, clock, backups, errs, inv.conf, inv.changes)} :
          Returned("Rename", inv.conf, inv.changes, r @@ [loaded |-> <<>>])

\* a call of rename.Undo, which the program makes with conf.Revert set
CallUndo(cwd, exec) ==
    /\ calls < MaxCalls
    /\ LET conf == Conf(cwd, exec, TRUE, TRUE)
       IN  \E r \in {Undo(fs, foldsCase, clock, backups, errs, conf)} :
              Returned("Undo", conf, <<>>, r)

\* the process ends and the next one starts: package-level variables start over
Exit ==
    /\ errs # <<>>
    /\ errs' = <<>>
    /\ UNCHANGED <<fs, foldsCase, clock, backups, calls, last, prev, find>>

Next ==
    \/ \E inv \in Invocations : CallRename(inv)
    \/ \E u \in Undos : CallUndo(u[1], u[2])
    \/ Exit

Spec == Init /\ [][Next]_vars

(***************************************************************************)
(* the calls of Find: a tree to search, and the arguments                  *)
(***************************************************************************)
FindCwd == <<"/", "w">>

FindTree ==
    { Node(Root, TRUE),
      Node(FindCwd, TRUE),
      Node(FindCwd \o <<"/", "i", "_", "1", ".", "t">>, FALSE),
      Node(FindCwd \o <<"/", "i", "_", "2", ".", "j">>, FALSE),
      Node(FindCwd \o <<"/", "n", ".", "t">>, FALSE),
      Node(FindCwd \o <<"/", ".", "h">>, TRUE),
      Node(FindCwd \o <<"/", ".", "h", "/", "k">>, TRUE),
      Node(FindCwd \o <<"/", "c">>, TRUE),
      Node(FindCwd \o <<"/", "c", "/", ".", "g">>, FALSE),
      Node(FindCwd \o <<"/", "d">>, TRUE),
      Node(FindCwd \o <<"/", "d", "/", "m", ".", "j">>, FALSE),
      Node(FindCwd \o <<"/", "d", "/", "e">>, TRUE),
      Node(FindCwd \o <<"/", "d", "/", "e", "/", "f">>, TRUE),
      Node(FindCwd \o <<"/", "d", "/", "e", "/", "f", "/", "i", "_", "3", ".", "j">>,
           FALSE) }

\* conf.PathsToFilesOrDirs
PathArguments ==
    { <<>>,
      <<Dot>>,
      <<<<"d">>>>,
      <<<<".", "h">>>>,
      <<<<"i", "_", "1", ".", "t">>>>,
      <<<<"c", "/", ".", "g">>>>,
      <<<<"i", "_", "1", ".", "t">>, Dot>>,
      <<Dot, <<"i", "_", "1", ".", "t">>>> }

\* the largest conf.MaxDepth tried; the smallest is -1
MaxDepthArg == 3

\* conf.SearchRegex: everything, or ^i_
SearchRegexes == {<<>>, <<"^", "i", "_">>}

\* conf.ExcludeFilter: none, \.t$, or the two patterns ^n and \.j$
ExcludeFilters ==
    { <<>>,
      <<<<EscapedDot, "t", "$">>>>,
      <<<<"^", "n">>, <<EscapedDot, "j", "$">>>> }

InitFind ==
    /\ fs = FindTree
    /\ foldsCase \in BOOLEAN
    /\ clock = 1
    /\ backups = <<>>
    /\ errs = <<>>
    /\ calls = 0
    /\ last = NoCall
    /\ prev = NoCall
    /\ find = NoFind

Quiet == UNCHANGED <<fs, foldsCase, clock, backups, errs, calls, last, prev>>

\* find.go 381-395 and 221-281: Find calls searchPaths, which reads its arguments
FindStart(pathsToSearch, maxDepth, recursive, includeHidden) ==
    /\ find.pc = "idle"
    /\ \E r \in {searchPaths(pathsToSearch, fs, foldsCase, FindCwd)} :
          find' = [pc |-> IF r.err # NoError THEN "done"
                          ELSE IF recursive THEN "walk"
                          ELSE "filter",
                   args |-> [pathsToSearch |-> pathsToSearch, maxDepth |-> maxDepth,
                             recursive |-> recursive, includeHidden |-> includeHidden],
                   flt |-> <<>>,
                   paths |-> IF r.err # NoError THEN <<>> ELSE r.paths,
                   recursedPaths |-> {},
                   currentDepth |-> 0,
                   walked |-> IF r.err # NoError THEN <<>> ELSE r.paths,
                   visits |-> <<>>,
                   err |-> r.err]
    /\ Quiet

\* find.go 169-216: one turn of the loop of walk, from the label to the goto.
\* visits counts, for every directory, the passes that went through its entries
WalkLevel ==
    /\ find.pc = "walk"
    /\ \E currentLevel \in {CurrentLevel(find.paths, find.recursedPaths, fs, foldsCase,
                                        FindCwd, find.args.includeHidden)} :
          LET merged == currentLevel @@ find.paths
              todo == Unvisited(find.paths, find.recursedPaths)
              before(dir) == IF dir \in DOMAIN find.visits THEN find.visits[dir] ELSE 0
              depth == find.currentDepth + 1
              again == DOMAIN currentLevel # {} /\ ~WalkStops(find.args.maxDepth, depth)
          IN  find' = [find EXCEPT
                          !.recursedPaths = @ \cup todo,
                          !.visits = [dir \in DOMAIN @ \cup todo |->
                                         before(dir) + IF dir \in todo THEN 1 ELSE 0],
                          !.paths = merged,
                          !.walked = merged,
                          !.currentDepth = IF DOMAIN currentLevel # {} THEN depth ELSE @,
                          !.pc = IF again THEN "walk" ELSE "filter"]
    /\ Quiet

\* find.go 400-412: Find calls filterMatches
FindFilter(searchRegex, excludeFilterInput, includeDir, onlyDir, ignoreExt) ==
    /\ find.pc = "filter"
    /\ LET flt == [pathsToSearch |-> find.args.pathsToSearch,
                   searchRegex |-> searchRegex,
                   excludeFilterInput |-> excludeFilterInput,
                   includeDir |-> includeDir,
                   includeHidden |-> find.args.includeHidden,
                   onlyDir |-> onlyDir,
                   ignoreExt |-> ignoreExt]
       IN  \E r \in {filterMatches(find.paths, foldsCase, FindCwd, flt)} :
              find' = [find EXCEPT !.pc = "done", !.flt = flt, !.paths = r]
    /\ Quiet

\* Find has returned; the next call starts
FindReturn ==
    /\ find.pc = "done"
    /\ find' = NoFind
    /\ Quiet

NextFind ==
    \/ \E pathsToSearch \in PathArguments, maxDepth \in -1..MaxDepthArg,
          recursive \in BOOLEAN, includeHidden \in BOOLEAN :
          FindStart(pathsToSearch, maxDepth, recursive, includeHidden)
    \/ WalkLevel
    \/ \E searchRegex \in SearchRegexes, excludeFilterInput \in ExcludeFilters,
          includeDir \in BOOLEAN, onlyDir \in BOOLEAN, ignoreExt \in BOOLEAN :
          FindFilter(searchRegex, excludeFilterInput, includeDir, onlyDir, ignoreExt)
    \/ FindReturn

SpecFind == InitFind /\ [][NextFind]_vars

\* walk is one sequential loop: a pass that can be made is made.  This is weak
\* fairness of WalkLevel, written with what enables it: WalkLevel has no guard
\* but find.pc = "walk", and every step of it adds to recursedPaths or leaves "walk"
SpecFindFair ==
    SpecFind /\ ([]<>(find.pc # "walk") \/ []<><<WalkLevel>>_vars)

(***************************************************************************)
(* properties of rename and Undo                                           *)
(***************************************************************************)
\* call c ran commit, and not as part of an Undo
Committed(c) == c.op = "Rename" /\ c.ran

\* call c is an Undo that loaded a snapshot and ran commit on its inverse
Undone(c) == c.op = "Undo" /\ c.ran

Succeeded(change) == change.Error = NoError

\* the Go indices of the items of call c that have their Error set
FailedIndices(c) == {i - 1 : i \in {j \in 1..Len(c.committed) : ~Succeeded(c.committed[j])}}

Elems(seq) == {seq[i] : i \in 1..Len(seq)}

\* the filesystem calls call c made for the item with Go index i
OpsOf(c, i) == SelectSeq(c.ops, LAMBDA o : o.i = i)

\* the one Rename (or the two of a case-only change) of item i was made and succeeded
Applied(c, i) ==
    /\ \E k \in 1..Len(c.ops) : c.ops[k].i = i /\ c.ops[k].op = "Rename"
    /\ \A k \in 1..Len(c.ops) : c.ops[k].i = i => c.ops[k].ok

\* C1: an executed Undo right after an executed commit without errored items, in
\* the same working directory, leaves the tree as it was before the commit.
\* Stated for batches of file changes, where the order of the items plays no part.
C1_RoundTrip ==
    ( /\ Undone(last)
      /\ Committed(prev)
      /\ prev.conf.WorkingDir = last.conf.WorkingDir
      /\ \A i \in 1..Len(prev.committed) :
            Succeeded(prev.committed[i]) /\ ~prev.committed[i].IsDir )
    => fs = prev.fsPre

\* C2: when exactly one item of a commit fails, the returned failure list is
\* exactly its index, and every other item was renamed and has no Error.
C2_PartialFailure ==
    (last.ran /\ Cardinality(FailedIndices(last)) = 1)
    => /\ Elems(last.ret) = FailedIndices(last)
       /\ Len(last.ret) = 1
       /\ \A i \in 1..Len(last.committed) :
             (Succeeded(last.committed[i]) /\ ~Unchanged(last.committed[i]))
             => Applied(last, i - 1)

\* The same for the first commit of a process, where errs starts empty: the list is
\* the failed index, every item is tried once and the others are applied.
FirstCommitPartialFailure ==
    (last.ran /\ last.errsPre = <<>> /\ Cardinality(FailedIndices(last)) = 1)
    => /\ Elems(last.ret) = FailedIndices(last)
       /\ Len(last.ret) = 1
       /\ \A i \in 1..Len(last.committed) :
             /\ (Succeeded(last.committed[i]) /\ ~Unchanged(last.committed[i]))
                => Applied(last, i - 1)
             /\ Len(SelectSeq(OpsOf(last, i - 1), LAMBDA o : o.op = "MkdirAll")) <= 1
             /\ Len(SelectSeq(OpsOf(last, i - 1), LAMBDA o : o.op = "Rename")) <= 2

\* C3: an item whose joined Source and Target are the same path makes no
\* filesystem call, keeps its Error unset, and its index is not in the failure list.
C3_NoOpStability ==
    last.ran =>
        \A i \in 1..Len(last.committed) :
            Unchanged(last.committed[i])
            => /\ OpsOf(last, i - 1) = <<>>
               /\ Succeeded(last.committed[i])
               /\ (i - 1) \notin Elems(last.ret)

\* The same for the first commit of a process.
FirstCommitNoOpStability ==
    (last.ran /\ last.errsPre = <<>>) =>
        \A i \in 1..Len(last.committed) :
            Unchanged(last.committed[i])
            => /\ OpsOf(last, i - 1) = <<>>
               /\ Succeeded(last.committed[i])
               /\ (i - 1) \notin Elems(last.ret)

\* the entries whose name starts with the two underscores of an intermediate name
Intermediates(f) == {n \in f : HasPrefix(Base(n.path), <<"_", "_">>)}

CaseOnly(change) ==
    /\ EqualFold(SourcePath(change), TargetPath(change))
    /\ ~Unchanged(change)

\* item i of call c, a case-only change of an existing source, went through: no
\* Error, the name spelled as the target exists, the name spelled as the source and
\* every intermediate name do not
CaseRenamed(c, i) ==
    /\ Succeeded(c.committed[i])
    /\ Node(Abs(c.conf.WorkingDir, TargetPath(c.committed[i])), FALSE) \in c.fs
    /\ Abs(c.conf.WorkingDir, SourcePath(c.committed[i])) \notin {n.path : n \in c.fs}
    /\ Intermediates(c.fs) = {}

\* C4: on a case-insensitive filesystem a case-only change of an existing file
\* succeeds, is not in the failure list, and leaves exactly the target-cased name.
C4_CaseOnlyRename ==
    (foldsCase /\ Committed(last) /\ Len(last.committed) = 1
     /\ CaseOnly(last.committed[1])
     /\ Exists(last.fsPre, foldsCase,
               Abs(last.conf.WorkingDir, SourcePath(last.committed[1]))))
    => (CaseRenamed(last, 1) /\ last.ret = <<>>)

\* The same for a Target without a separator, on either kind of filesystem.
CaseOnlyRenameOfName ==
    (Committed(last) /\ Len(last.committed) = 1
     /\ CaseOnly(last.committed[1])
     /\ ~Contains(last.committed[1].Target, Separator)
     /\ Exists(last.fsPre, foldsCase,
               Abs(last.conf.WorkingDir, SourcePath(last.committed[1]))))
    => CaseRenamed(last, 1)

\* C5: after an executed commit that is not an undo, the changes of the backup
\* snapshot of the working directory are the committed changes without an Error,
\* in commit order.
C5_BackupHoldsSuccessfulChanges ==
    Committed(last)
    => /\ BackupFilePath(last.conf.WorkingDir) \in DOMAIN backups
       /\ UnmarshalChanges(backups[BackupFilePath(last.conf.WorkingDir)])
          = SelectSeq(last.committed, Succeeded)

\* a commit with a failed item before a successful one
C5_Witness ==
    /\ Committed(last)
    /\ \E i, j \in 1..Len(last.committed) :
          i < j /\ ~Succeeded(last.committed[i]) /\ Succeeded(last.committed[j])

\* C6: an Undo loads only the snapshot of its own working directory.
C6_OwnSnapshot ==
    (last.op = "Undo" /\ last.loaded # <<>>)
    => last.loaded.working_dir = last.conf.WorkingDir

\* C7: after an executed Undo whose inverse renames all succeed the backup file is
\* gone, and an Undo right after it in the same working directory returns
\* nothing-to-undo and makes no filesystem call.
C7_UndoConsumesBackup ==
    LET spent(c) == /\ Undone(c)
                    /\ c.conf.Exec
                    /\ Len(c.committed) > 0
                    /\ \A i \in 1..Len(c.committed) : Succeeded(c.committed[i])
    IN  /\ spent(last) => BackupFilePath(last.conf.WorkingDir) \notin DOMAIN backups
        /\ (spent(prev) /\ last.op = "Undo"
            /\ last.conf.WorkingDir = prev.conf.WorkingDir)
           => (last.result = "errNothingToUndo" /\ last.ops = <<>>)

\* The same when the process had recorded no failure before the Undo.
FirstCommitUndoConsumesBackup ==
    (Undone(last) /\ last.conf.Exec /\ last.errsPre = <<>>
     /\ \A i \in 1..Len(last.committed) : Succeeded(last.committed[i]))
    => /\ BackupFilePath(last.conf.WorkingDir) \notin DOMAIN backups
       /\ last.result = NoError

\* the changes of call c as they were handed to commit, in commit order
Planned(c) == [i \in 1..Len(c.committed) |-> [c.committed[i] EXCEPT !.Error = NoError]]

\* before call c the working directory holds the directory s with the file a in
\* it, and neither s/b nor t
BeforeDirRename(c) ==
    /\ Committed(c)
    /\ Node(WorkA \o <<"/", "s">>, TRUE) \in c.fsPre
    /\ Node(WorkA \o <<"/", "s", "/", "a">>, FALSE) \in c.fsPre
    /\ ~Exists(c.fsPre, foldsCase, WorkA \o <<"/", "s", "/", "b">>)
    /\ ~Exists(c.fsPre, foldsCase, WorkA \o <<"/", "t">>)

\* C10 as stated: the file s/a to t/a committed before the directory s to t, in a
\* process without a recorded failure, returns an empty failure list.
C10_OrderingAsClaimed ==
    (BeforeDirRename(last) /\ last.errsPre = <<>> /\ Planned(last) = FileThenDir)
    => last.ret = <<>>

\* C10: for the directory s renamed to t and the file a inside s renamed to b,
\* committing the file change first leaves no Error on either change and the file
\* at t/b; committing the directory change first renames the directory and leaves
\* an Error on the file change, whose source path no longer exists.
C10_Ordering ==
    /\ (BeforeDirRename(last) /\ Planned(last) = InnerThenDir)
       => /\ \A i \in 1..2 : Succeeded(last.committed[i])
          /\ Node(WorkA \o <<"/", "t", "/", "b">>, FALSE) \in last.fs
          /\ ~Exists(last.fs, foldsCase, WorkA \o <<"/", "s">>)
    /\ (BeforeDirRename(last) /\ Planned(last) = DirThenInner)
       => /\ Succeeded(last.committed[1])
          /\ last.committed[2].Error = "ENOENT"
          /\ Node(WorkA \o <<"/", "t", "/", "a">>, FALSE) \in last.fs

\* the file change was committed before the directory change, and both went through
C10_Witness ==
    /\ BeforeDirRename(last)
    /\ Planned(last) = InnerThenDir
    /\ \A i \in 1..2 : Succeeded(last.committed[i])
    /\ last.ret = <<>>

(***************************************************************************)
(* properties of Find                                                      *)
(***************************************************************************)
\* the walk of a recursive search has returned
Walked == find.pc = "filter" /\ find.args.recursive

\* the one directory a search starts from, when it starts from one
Roots ==
    IF Len(find.args.pathsToSearch) = 0 THEN {Dot}
    ELSE IF Len(find.args.pathsToSearch) = 1
            /\ IsDirAt(fs, foldsCase, Abs(FindCwd, find.args.pathsToSearch[1]))
    THEN {Clean(find.args.pathsToSearch[1])}
    ELSE {}

\* the names on the way from directory root down to path, root itself not counted
Descent(root, path) ==
    IF path = root THEN <<>> ELSE Elements(SubSeq(path, Len(root) + 2, Len(path)))

\* the directories of the tree on or below root that the walk may enter: at most
\* maxDepth levels down when maxDepth is positive, and through hidden directories
\* only when includeHidden is set
WithinDepth(root, maxDepth, includeHidden) ==
    {n \in fs :
        /\ n.dir
        /\ n.path = root \/ HasPrefix(n.path, root \o <<Separator>>)
        /\ maxDepth > 0 => Len(Descent(root, n.path)) <= maxDepth
        /\ includeHidden \/ \A k \in 1..Len(Descent(root, n.path)) :
                               ~isHidden(Descent(root, n.path)[k], root)}

\* C8: a recursive search from one directory with maxDepth = k > 0 returns the
\* entries of the directories at most k levels below it and of no other; with
\* maxDepth <= 0 it returns the entries of every directory below it that is
\* reached without entering a hidden directory (of every directory, with
\* includeHidden).
C8_DepthBound ==
    Walked =>
        \A root \in Roots :
            /\ {Abs(FindCwd, dir) : dir \in DOMAIN find.paths}
               = {n.path : n \in WithinDepth(Abs(FindCwd, root), find.args.maxDepth,
                                            find.args.includeHidden)}
            /\ \A dir \in DOMAIN find.paths :
                  find.paths[dir] = ReadDir(fs, foldsCase, FindCwd, dir)

\* a search from "." with maxDepth 1 that holds the entries of d and not of d/e
C8_Witness ==
    /\ Walked
    /\ find.args.pathsToSearch = <<Dot>>
    /\ find.args.maxDepth = 1
    /\ <<"d">> \in DOMAIN find.paths
    /\ <<"d", "/", "e">> \notin DOMAIN find.paths

\* filterMatches has returned
Filtered == find.pc = "done" /\ find.flt # <<>>

\* the name matches the exclusion pattern, which is not empty
Excluded(name) ==
    /\ ExcludeFilter(find.flt.excludeFilterInput) # <<>>
    /\ MatchString(ExcludeFilter(find.flt.excludeFilterInput), name)

\* C9: an entry that is left after filterMatches does not match the exclusion
\* pattern and matches the inclusion pattern, both tested on its name without the
\* extension when ignoreExt is set and it is not a directory; an entry that matches
\* both patterns is dropped.
C9_ExclusionFirst ==
    Filtered =>
        \A dir \in DOMAIN find.walked :
            \A k \in 1..Len(find.walked[dir]) :
                LET entry == find.walked[dir][k]
                    name == IF find.flt.ignoreExt /\ ~entry.dir
                            THEN FilenameWithoutExtension(entry.name)
                            ELSE entry.name
                    left == dir \in DOMAIN find.paths
                            /\ \E j \in 1..Len(find.paths[dir]) :
                                  find.paths[dir][j] = entry
                IN  /\ left => (~Excluded(name) /\ MatchString(find.flt.searchRegex, name))
                    /\ (Excluded(name) /\ MatchString(find.flt.searchRegex, name))
                       => ~left

\* i_1.t matches ^i_ and \.t$ and is dropped, i_2.j next to it is left
C9_Witness ==
    /\ Filtered
    /\ find.flt.searchRegex = <<"^", "i", "_">>
    /\ find.flt.excludeFilterInput = <<<<EscapedDot, "t", "$">>>>
    /\ ~find.flt.ignoreExt
    /\ Dot \in DOMAIN find.walked
    /\ \E k \in 1..Len(find.walked[Dot]) :
          find.walked[Dot][k] = Entry(<<"i", "_", "1", ".", "t">>, FALSE)
    /\ Dot \in DOMAIN find.paths
    /\ find.paths[Dot] = <<Entry(<<"i", "_", "2", ".", "j">>, FALSE)>>

(***************************************************************************)
(* properties of the backup, of the failure list and of the reordering     *)
(***************************************************************************)
\* C11: every serialised Output has the key "changes", holding an array that is
\* empty when there are no changes.
C11_ChangesAlwaysPresent ==
    \A name \in DOMAIN backups : "changes" \in DOMAIN backups[name]

\* item i of call c was renamed: it has no Error and its renames were made
RenamedItem(c, i) == Succeeded(c.committed[i]) /\ Applied(c, i - 1)

\* C12: a commit that renamed nothing, and a commit run with Revert set, leave the
\* backup files as they were; an Undo may only remove the file it has replayed.
C12_BackupOnlyAfterRename ==
    /\ (Committed(last) /\ \A i \in 1..Len(last.committed) : ~RenamedItem(last, i))
       => last.backups = last.backupsPre
    /\ Undone(last)
       => \A name \in DOMAIN last.backups :
             /\ name \in DOMAIN last.backupsPre
             /\ last.backups[name] = last.backupsPre[name]

\* the first rename call c made for item i, from the source path of the change
FirstRenames(c, i) ==
    SelectSeq(c.ops, LAMBDA o : /\ o.i = i - 1
                                /\ o.op = "Rename"
                                /\ o.from = Abs(c.conf.WorkingDir,
                                                SourcePath(c.committed[i])))

\* C13: the first rename of a case-only change goes to a path in the directory of
\* the final target path, and does not fail for want of that directory.
C13_IntermediateBesideTarget ==
    last.ran =>
        \A i \in 1..Len(last.committed) :
            CaseOnly(last.committed[i]) =>
                \A k \in 1..Len(FirstRenames(last, i)) :
                    /\ Dir(FirstRenames(last, i)[k].to)
                       = Dir(Abs(last.conf.WorkingDir, TargetPath(last.committed[i])))
                    /\ Exists(last.fsPre, foldsCase,
                              Abs(last.conf.WorkingDir, SourcePath(last.committed[i])))
                       => FirstRenames(last, i)[k].ok

\* C15: when commit returns, an index is in the returned failure list exactly
\* when the change at that position of the change list, as the caller then sees
\* it, has its Error set.
C15_IndicesMatchPositions ==
    last.ran =>
        Elems(last.ret) = {i - 1 : i \in {j \in 1..Len(last.changes) :
                                            ~Succeeded(last.changes[j])}}

\* C16: the failure list a call returns holds the indices of the changes that
\* failed in that call, each once, and a call in which every rename succeeds
\* returns an empty list and reports success.
C16_NoStateOutlivesCall ==
    last.ran =>
        /\ Elems(last.ret) = FailedIndices(last)
        /\ Len(last.ret) = Cardinality(FailedIndices(last))
        /\ FailedIndices(last) = {} => (last.ret = <<>> /\ last.result = NoError)

\* C17: an executed Undo in which an inverse rename fails returns the undo-failed
\* error and leaves the backup files as they were, and no Undo writes or rewrites a
\* backup file: the files after it are files from before it, unchanged.
C17_FailedUndoKeepsBackup ==
    /\ (Undone(last) /\ FailedIndices(last) # {})
       => /\ last.result = "errUndoFailed"
          /\ backups = last.backupsPre
    /\ last.op = "Undo"
       => \A name \in DOMAIN backups :
             /\ name \in DOMAIN last.backupsPre
             /\ backups[name] = last.backupsPre[name]

\* an Undo in a process without a recorded failure, with one inverse rename that
\* fails and one that succeeds
C17_Witness ==
    /\ Undone(last)
    /\ last.errsPre = <<>>
    /\ \E i, j \in 1..Len(last.committed) :
          ~Succeeded(last.committed[i]) /\ RenamedItem(last, j)
    /\ BackupFilePath(last.conf.WorkingDir) \in DOMAIN backups

Failures(changes) == SelectSeq(changes, LAMBDA c : ~Succeeded(c))

\* C19: after a commit with a failure the change list is a stable partition of
\* the committed list: the successful changes on one side, the failed ones on the
\* other, each group in the order it had.
C19_StablePartition ==
    (last.ran /\ FailedIndices(last) # {})
    => \/ last.changes = SelectSeq(last.committed, Succeeded) \o Failures(last.committed)
       \/ last.changes = Failures(last.committed) \o SelectSeq(last.committed, Succeeded)

(***************************************************************************)
(* properties of searchPaths, filterMatches and walk                       *)
(***************************************************************************)
\* searchPaths has returned without an error, and no walk was asked for
Searched == find.pc = "filter" /\ ~find.args.recursive

\* the arguments searchPaths works on, cleaned
SearchedPaths ==
    LET given == IF Len(find.args.pathsToSearch) = 0 THEN <<Dot>>
                 ELSE find.args.pathsToSearch
    IN  [k \in 1..Len(given) |-> Clean(given[k])]

Reversed(seq) == [k \in 1..Len(seq) |-> seq[Len(seq) + 1 - k]]

\* C14: after searchPaths every argument that is a directory is a key holding all
\* entries of that directory, every argument that is a file has its entry exactly
\* once under its directory, with no other entry there unless the directory is an
\* argument too, and the arguments in reverse order give the same collection.
C14_SearchPathsOrderFree ==
    Searched =>
        /\ \A k \in 1..Len(SearchedPaths) :
              LET path == SearchedPaths[k]
                  dir == Dir(path)
              IN  IF IsDirAt(fs, foldsCase, Abs(FindCwd, path))
                  THEN /\ path \in DOMAIN find.paths
                       /\ find.paths[path] = ReadDir(fs, foldsCase, FindCwd, path)
                  ELSE /\ dir \in DOMAIN find.paths
                       /\ Cardinality({j \in 1..Len(find.paths[dir]) :
                                         find.paths[dir][j].name = Base(path)}) = 1
                       /\ dir \notin Elems(SearchedPaths)
                          => \A j \in 1..Len(find.paths[dir]) :
                                \E m \in 1..Len(SearchedPaths) :
                                   /\ Dir(SearchedPaths[m]) = dir
                                   /\ Base(SearchedPaths[m]) = find.paths[dir][j].name
        /\ find.paths = searchPaths(Reversed(SearchedPaths), fs, foldsCase, FindCwd).paths

\* the entries of directory dir, as filterMatches was handed them, that pass the
\* filter of the call
Passing(dir) ==
    SelectSeq(find.walked[dir], LAMBDA e : Kept(foldsCase, FindCwd, dir, e, find.flt))

\* C18: after filterMatches no key of the collection maps to an empty list, and
\* every key that is left maps to the entries of its list that pass the filter, in
\* their order; a key is left exactly when one of its entries passes.
C18_FilteredExactly ==
    Filtered =>
        /\ DOMAIN find.paths \subseteq DOMAIN find.walked
        /\ \A dir \in DOMAIN find.paths : find.paths[dir] # <<>>
        /\ \A dir \in DOMAIN find.walked :
              IF Passing(dir) = <<>> THEN dir \notin DOMAIN find.paths
              ELSE dir \in DOMAIN find.paths /\ find.paths[dir] = Passing(dir)

\* one directory was removed from the collection, another lost some of its entries
\* and kept more than one
C18_Witness ==
    /\ Filtered
    /\ \E dir \in DOMAIN find.walked : dir \notin DOMAIN find.paths
    /\ \E dir \in DOMAIN find.paths :
          /\ Len(find.paths[dir]) > 1
          /\ Len(find.paths[dir]) < Len(find.walked[dir])

\* no directory of the collection has had its entries gone through twice
VisitedOnce == \A dir \in DOMAIN find.visits : find.visits[dir] <= 1

\* C20: the walk ends, and during it every directory of the collection is
\* expanded in at most one pass of the loop.
C20_WalkEndsVisitingOnce ==
    /\ []VisitedOnce
    /\ (find.pc = "walk") ~> (find.pc = "filter")

\* a walk without a depth limit has ended after more than two passes, each
\* directory gone through once
C20_Witness ==
    /\ Walked
    /\ find.args.maxDepth <= 0
    /\ find.currentDepth > 2
    /\ Cardinality(DOMAIN find.visits) > 3
    /\ \A dir \in DOMAIN find.visits : find.visits[dir] = 1

====
